---- MODULE Spec2Model ----
(***************************************************************************)
(* Verification model of the video-grid annotation client.                 *)
(*                                                                         *)
(*   src/src/App.tsx     graph decoding, tag points, the feed's state      *)
(*   src/src/hdWallet.ts namespace key derivation                          *)
(*                                                                         *)
(* Strings are TLA+ strings; a character is a string of length 1.  An      *)
(* optional value (a JavaScript value that may be undefined) is a sequence *)
(* of length 0 (undefined) or 1.  A GraphNode is a record whose domain is  *)
(* the set of attributes the node carries.                                 *)
(***************************************************************************)
EXTENDS Integers, Sequences, FiniteSets, TLC

VARIABLES
    videos,                      \* useState<VideoTrack[]>
    editingPoint,                \* useState<{videoKey, pointId} | null>
    isAnnotationSessionActive,   \* useState(false)
    annotationSessionTimeoutRef, \* TRUE while the 5 s timer is pending
    timerDeadline,               \* the second at which the pending timer is due, 0 when none is pending
    now,                         \* the clock, in seconds since the page was loaded
    gridScale,                   \* useState(1)
    graphSource,                 \* useState('')
    nextUuid,                    \* number of the next crypto.randomUUID() result
    readOnlyNoteCall,            \* history: the last handler was updatePointNote naming a read-only point
    socketUrl,                   \* useState(DEFAULT_GRAPH_SOCKET_URL)
    socketVersion,               \* useState(0)
    socketError,                 \* useState<string | null>(null)
    sockets,                     \* every WebSocket made so far, in order of construction
    socketRef,                   \* useRef<WebSocket | null>: index in sockets, 0 for null
    requestedPublicKeysRef,      \* useRef<Set<string>>
    ignoredMessage,              \* history: the message listener has ignored a message
    pc,          \* which pure function the harness has applied ("start" before)
    inNodes,     \* harness input: GraphNode[]
    inNamespace, \* harness input: optional namespace
    outPoints,   \* harness output: PointOfInterest[]
    inAccount,   \* harness input: account of generateHDKeypair
    inAddress,   \* harness input: address of generateHDKeypair
    outKey,      \* harness output: {path, publicKey}
    inGraph,     \* harness input: the segments of a graph text and their separator
    outNodes,    \* harness output: GraphNode[]
    inCells      \* harness input: the grid cells tags are made for

(***************************************************************************)
(* Program constants                                                       *)
(***************************************************************************)
GRID_ASPECT_WIDTH == 9
GRID_ASPECT_HEIGHT == 16
MIN_GRID_SCALE == 1
MAX_GRID_SCALE == 4
AnnotationSessionSeconds == 5

(***************************************************************************)
(* Bounds of the model                                                     *)
(***************************************************************************)
MaxNodes == 2        \* longest node list handed to parseTagPointsForNamespace
MaxSegments == 2     \* most segments in a graph text handed to parseGraphNodes
MaxUuid == 5         \* crypto.randomUUID() is called at most this many times
MaxSockets == 2      \* the socket effect runs at most this many times
MaxTags == 2         \* most tags of grid cells handed to parseTagPointsForNamespace
MaxTime == 7         \* the clock stops at this second
CellPixels == 2      \* width and height of one grid cell of the overlay

(***************************************************************************)
(* Strings                                                                 *)
(***************************************************************************)
Undefined == <<>>
Some(v) == <<v>>

CharAt(s, i) == SubSeq(s, i, i)

Digits == {"0", "1", "2", "3", "4", "5", "6", "7", "8", "9"}
IsDigit(c) == c \in Digits
DigitValue(c) ==
    CASE c = "0" -> 0 [] c = "1" -> 1 [] c = "2" -> 2 [] c = "3" -> 3
      [] c = "4" -> 4 [] c = "5" -> 5 [] c = "6" -> 6 [] c = "7" -> 7
      [] c = "8" -> 8 [] c = "9" -> 9

\* String.prototype.trim(): strips white space at both ends
WhiteSpace == {" ", "\t", "\n", "\r"}

RECURSIVE TrimStart(_)
TrimStart(s) ==
    IF Len(s) > 0 /\ CharAt(s, 1) \in WhiteSpace
    THEN TrimStart(SubSeq(s, 2, Len(s)))
    ELSE s

RECURSIVE TrimEnd(_)
TrimEnd(s) ==
    IF Len(s) > 0 /\ CharAt(s, Len(s)) \in WhiteSpace
    THEN TrimEnd(SubSeq(s, 1, Len(s) - 1))
    ELSE s

Trim(s) == TrimEnd(TrimStart(s))

\* node.attr?.trim(): undefined stays undefined
Attr(node, k) == IF k \in DOMAIN node THEN Some(node[k]) ELSE Undefined
TrimOpt(opt) == IF opt = Undefined THEN Undefined ELSE Some(Trim(opt[1]))
\* !value for an optional string: undefined or ""
Falsy(opt) == opt = Undefined \/ opt[1] = ""

\* A JavaScript number that may be NaN.  Number.parseInt(s, 10) skips leading
\* white space, reads an optional sign and the digit run after it; NaN when
\* there is no digit.
NaN == [nan |-> TRUE, v |-> 0]
Num(v) == [nan |-> FALSE, v |-> v]
isNaN(x) == x.nan

RECURSIVE DigitRun(_, _)
DigitRun(s, i) ==
    IF i <= Len(s) /\ IsDigit(CharAt(s, i)) THEN DigitRun(s, i + 1) ELSE i - 1

RECURSIVE DecimalValue(_, _)
DecimalValue(s, n) ==
    IF n = 0 THEN 0
    ELSE 10 * DecimalValue(s, n - 1) + DigitValue(CharAt(s, n))

parseInt(s) ==
    LET t == TrimStart(s)
        signed == Len(t) > 0 /\ CharAt(t, 1) \in {"+", "-"}
        d == IF signed THEN SubSeq(t, 2, Len(t)) ELSE t
        n == DigitRun(d, 1)
    IN IF n = 0 THEN NaN
       ELSE IF signed /\ CharAt(t, 1) = "-" THEN Num(0 - DecimalValue(d, n))
       ELSE Num(DecimalValue(d, n))

(***************************************************************************)
(* escapeRegExp and the RegExp built from it (App.tsx 142, 149)            *)
(*                                                                         *)
(* The pattern source is "^" + escapeRegExp(namespace) + the fixed tail    *)
(* "/T\+(\d+)s/(\d+)x(\d+)/".  The namespace part is compiled the way the  *)
(* RegExp constructor reads it: a backslash makes the next character a     *)
(* literal, an unescaped "." matches any character but a line terminator,  *)
(* any other character is a literal.                                       *)
(***************************************************************************)
MetaChars == {".", "*", "+", "?", "^", "$", "{", "}", "(", ")", "|", "[", "]", "\\"}

\* mutant: the namespace goes into the pattern unescaped
escapeRegExpIdentity(value) == value

RECURSIVE escapeRegExp(_)
escapeRegExp(value) ==
    IF value = "" THEN ""
    ELSE LET c == CharAt(value, 1)
             rest == escapeRegExp(SubSeq(value, 2, Len(value)))
         IN IF c \in MetaChars THEN "\\" \o c \o rest ELSE c \o rest

\* atoms of the compiled namespace part
Lit(c) == [atom |-> "lit", c |-> c]
AnyChar == [atom |-> "any"]

RECURSIVE CompileAtoms(_)
CompileAtoms(src) ==
    IF src = "" THEN <<>>
    ELSE LET c == CharAt(src, 1)
         IN IF c = "\\" /\ Len(src) >= 2
            THEN <<Lit(CharAt(src, 2))>> \o CompileAtoms(SubSeq(src, 3, Len(src)))
            ELSE IF c = "."
            THEN <<AnyChar>> \o CompileAtoms(SubSeq(src, 2, Len(src)))
            ELSE <<Lit(c)>> \o CompileAtoms(SubSeq(src, 2, Len(src)))

AtomMatches(a, c) ==
    IF a.atom = "any" THEN c \notin {"\n", "\r"} ELSE a.c = c

\* the atoms match s at positions 1..Len(atoms) ("^" anchors the match)
MatchAtoms(atoms, s) ==
    /\ Len(s) >= Len(atoms)
    /\ \A i \in 1..Len(atoms) : AtomMatches(atoms[i], CharAt(s, i))

\* literal text at position i of s
LitAt(s, i, text) ==
    /\ i + Len(text) - 1 <= Len(s)
    /\ SubSeq(s, i, i + Len(text) - 1) = text

NoMatch == <<>>

\* pubkey.match(pattern): NoMatch, or <<timeString, columnString, rowString>>.
\* Each (\d+) is followed by a literal that is no digit, so the greedy run is
\* the only way the match can succeed.
RegExpMatch(namespace, s) ==
    LET atoms == CompileAtoms(escapeRegExp(namespace))
        p0 == Len(atoms) + 1
        t1 == p0 + 3
        t2 == DigitRun(s, t1)
        c1 == t2 + 3
        c2 == DigitRun(s, c1)
        r1 == c2 + 2
        r2 == DigitRun(s, r1)
    IN IF /\ MatchAtoms(atoms, s)
          /\ LitAt(s, p0, "/T+")
          /\ t2 >= t1
          /\ LitAt(s, t2 + 1, "s/")
          /\ c2 >= c1
          /\ LitAt(s, c2 + 1, "x")
          /\ r2 >= r1
          /\ LitAt(s, r2 + 1, "/")
       THEN <<SubSeq(s, t1, t2), SubSeq(s, c1, c2), SubSeq(s, r1, r2)>>
       ELSE NoMatch

(***************************************************************************)
(* parseTagPointsForNamespace (App.tsx 144-191)                            *)
(*                                                                         *)
(* A percentage is the exact rational num/den (den > 0).                   *)
(***************************************************************************)
Percent(num, den) == [num |-> num, den |-> den]

\* mutant: a sort that does not keep the order of equal elements
RECURSIVE InsertByTimeUnstable(_, _)
InsertByTimeUnstable(sorted, p) ==
    IF sorted = <<>> THEN <<p>>
    ELSE IF sorted[Len(sorted)].time < p.time THEN Append(sorted, p)
    ELSE Append(InsertByTimeUnstable(SubSeq(sorted, 1, Len(sorted) - 1), p),
                sorted[Len(sorted)])

\* Array.prototype.sort((a, b) => a.time - b.time): stable
RECURSIVE InsertByTime(_, _)
InsertByTime(sorted, p) ==
    IF sorted = <<>> THEN <<p>>
    ELSE IF sorted[Len(sorted)].time <= p.time THEN Append(sorted, p)
    ELSE Append(InsertByTime(SubSeq(sorted, 1, Len(sorted) - 1), p),
                sorted[Len(sorted)])

RECURSIVE SortByTimeFrom(_, _, _)
SortByTimeFrom(points, i, acc) ==
    IF i > Len(points) THEN acc
    ELSE SortByTimeFrom(points, i + 1, InsertByTime(acc, points[i]))

SortByTime(points) == SortByTimeFrom(points, 1, <<>>)

\* const [, timeString, columnString, rowString] = match
MatchGroupsRowFirst(match) ==
    [timeString |-> match[1], columnString |-> match[3], rowString |-> match[2]]

MatchGroups(match) ==
    [timeString |-> match[1], columnString |-> match[2], rowString |-> match[3]]

\* if (!memo || !pubkey) return points
SkipsNodeUndefinedOnly(memo, pubkey) == memo = Undefined \/ Falsy(pubkey)

SkipsNode(memo, pubkey) == Falsy(memo) \/ Falsy(pubkey)

TagPoint(pubkey, memo, time, column, row) ==
    [id |-> pubkey,
     time |-> time,
     row |-> row,
     column |-> column,
     xPercent |-> Percent((2 * column - 1) * 100, 2 * GRID_ASPECT_WIDTH),
     yPercent |-> Percent((2 * row - 1) * 100, 2 * GRID_ASPECT_HEIGHT),
     note |-> memo,
     isReadOnly |-> TRUE]

\* mutant: the coordinate is split at the separators and a component that is
\* no number counts as 0
TagPointReducerLenient(points, node, namespace) ==
    LET memo == TrimOpt(Attr(node, "memo"))
        pubkey == TrimOpt(Attr(node, "pubkey"))
        OrZero(x) == IF isNaN(x) THEN 0 ELSE x.v
    IN IF SkipsNode(memo, pubkey) THEN points
       ELSE IF ~LitAt(pubkey[1], 1, namespace \o "/T+") THEN points
       ELSE LET t1 == Len(namespace) + 4
                t2 == DigitRun(pubkey[1], t1)
            IN Append(points,
                      TagPoint(pubkey[1], memo[1],
                               OrZero(parseInt(SubSeq(pubkey[1], t1, t2))), 0, 0))

\* the reducer's body for one node: the points with the node's point appended,
\* or the points unchanged when the node is skipped
TagPointReducer(points, node, namespace) ==
    LET memo == TrimOpt(Attr(node, "memo"))
        pubkey == TrimOpt(Attr(node, "pubkey"))
    IN IF SkipsNode(memo, pubkey) THEN points
       ELSE LET match == RegExpMatch(namespace, pubkey[1])
            IN IF match = NoMatch THEN points
               ELSE LET groups == MatchGroups(match)
                        time == parseInt(groups.timeString)
                        column == parseInt(groups.columnString)
                        row == parseInt(groups.rowString)
                    IN IF isNaN(time) \/ isNaN(column) \/ isNaN(row) THEN points
                       ELSE Append(points,
                                   TagPoint(pubkey[1], memo[1],
                                            time.v, column.v, row.v))

RECURSIVE ReduceTagPoints(_, _, _, _)
ReduceTagPoints(nodes, i, namespace, points) ==
    IF i > Len(nodes) THEN points
    ELSE ReduceTagPoints(nodes, i + 1, namespace,
                         TagPointReducer(points, nodes[i], namespace))

\* namespace is optional
parseTagPointsForNamespace(nodes, namespace) ==
    IF Falsy(namespace) THEN <<>>
    ELSE SortByTime(ReduceTagPoints(nodes, 1, namespace[1], <<>>))

(***************************************************************************)
(* parseGraphNodes (App.tsx 109-120)                                       *)
(*                                                                         *)
(* The statement pattern is: a quoted non-empty identifier, white space,   *)
(* an opening bracket, a lazily matched body without line terminators,     *)
(* and the closing bracket with a semicolon.  The attribute pattern is: a  *)
(* run of word characters, an equals sign and a quoted value without       *)
(* quotes.  Both are global and applied with matchAll: the text is scanned *)
(* left to right, a match is taken at the first position where one exists  *)
(* and the scan goes on after it.                                          *)
(***************************************************************************)
Quote == "\""
LineTerminators == {"\n", "\r"}

CharsOf(s) == {CharAt(s, i) : i \in 1..Len(s)}
WordChars ==
    CharsOf("abcdefghijklmnopqrstuvwxyzABCDEFGHIJKLMNOPQRSTUVWXYZ0123456789_")
IsWordChar(c) == c \in WordChars

\* first position >= i holding a quote, 0 when there is none
RECURSIVE NextQuote(_, _)
NextQuote(s, i) ==
    IF i > Len(s) THEN 0
    ELSE IF CharAt(s, i) = Quote THEN i
    ELSE NextQuote(s, i + 1)

\* \s*: first position >= i that holds no white space
RECURSIVE SkipWhiteSpace(_, _)
SkipWhiteSpace(s, i) ==
    IF i <= Len(s) /\ CharAt(s, i) \in WhiteSpace
    THEN SkipWhiteSpace(s, i + 1)
    ELSE i

\* (.*?)\];  first position k >= i with "];" at k and no line terminator in
\* i..k-1, 0 when there is none
RECURSIVE LazyBodyEnd(_, _)
LazyBodyEnd(s, i) ==
    IF LitAt(s, i, "];") THEN i
    ELSE IF i > Len(s) \/ CharAt(s, i) \in LineTerminators THEN 0
    ELSE LazyBodyEnd(s, i + 1)

\* the statement pattern at position i: NoMatch, or <<body, next position>>
StatementAt(s, i) ==
    IF i > Len(s) \/ CharAt(s, i) # Quote THEN NoMatch
    ELSE LET q == NextQuote(s, i + 1)
         IN IF q < i + 2 THEN NoMatch
            ELSE LET b == SkipWhiteSpace(s, q + 1)
                 IN IF ~LitAt(s, b, "[") THEN NoMatch
                    ELSE LET k == LazyBodyEnd(s, b + 1)
                         IN IF k = 0 THEN NoMatch
                            ELSE <<SubSeq(s, b + 1, k - 1), k + 2>>

\* \w+: last position of the run of word characters starting at i
RECURSIVE WordRun(_, _)
WordRun(s, i) ==
    IF i <= Len(s) /\ IsWordChar(CharAt(s, i)) THEN WordRun(s, i + 1) ELSE i - 1

\* the attribute pattern at position i: NoMatch, or <<key, value, next position>>
AttributeAt(s, i) ==
    LET w == WordRun(s, i)
    IN IF w < i \/ ~LitAt(s, w + 1, "=" \o Quote) THEN NoMatch
       ELSE LET q == NextQuote(s, w + 3)
            IN IF q = 0 THEN NoMatch
               ELSE <<SubSeq(s, i, w), SubSeq(s, w + 3, q - 1), q + 1>>

\* mutant: the first value of a key is kept
SetAttributeKeepFirst(node, key, value) ==
    [k \in (DOMAIN node) \cup {key} |->
        IF k \in DOMAIN node THEN node[k] ELSE value]

\* parsedAttributes[key] = value
SetAttribute(node, key, value) ==
    [k \in (DOMAIN node) \cup {key} |-> IF k = key THEN value ELSE node[k]]

EmptyNode == [k \in {} |-> ""]

RECURSIVE ParseAttributes(_, _, _)
ParseAttributes(attributes, i, node) ==
    IF i > Len(attributes) THEN node
    ELSE LET m == AttributeAt(attributes, i)
         IN IF m = NoMatch THEN ParseAttributes(attributes, i + 1, node)
            ELSE ParseAttributes(attributes, m[3],
                                 SetAttribute(node, m[1], m[2]))

RECURSIVE ParseStatements(_, _, _)
ParseStatements(dotGraph, i, nodes) ==
    IF i > Len(dotGraph) THEN nodes
    ELSE LET m == StatementAt(dotGraph, i)
         IN IF m = NoMatch THEN ParseStatements(dotGraph, i + 1, nodes)
            ELSE ParseStatements(dotGraph, m[2],
                                 Append(nodes, ParseAttributes(m[1], 1, EmptyNode)))

parseGraphNodes(dotGraph) == ParseStatements(dotGraph, 1, <<>>)

(***************************************************************************)
(* extractVideoId (App.tsx 47-84)                                          *)
(*                                                                         *)
(* new URL(trimmed) is modelled for absolute http(s) URLs without port,    *)
(* user info or fragment: scheme "://" hostname [pathname] ["?" search].   *)
(* Any other text makes the constructor throw.                             *)
(***************************************************************************)
Null == <<>>
VideoIdLength == 11

IsIdChar(c) == IsWordChar(c) \/ c = "-"

\* /^[\w-]{11}$/.test(s)
IsVideoId(s) ==
    Len(s) = VideoIdLength /\ \A i \in 1..Len(s) : IsIdChar(CharAt(s, i))

\* first position >= i holding one of the characters, Len(s) + 1 when none
RECURSIVE FirstOf(_, _, _)
FirstOf(s, i, chars) ==
    IF i > Len(s) \/ CharAt(s, i) \in chars THEN i ELSE FirstOf(s, i + 1, chars)

Includes(s, text) == \E i \in 1..(Len(s) + 1) : LitAt(s, i, text)

\* new URL(s): Null when it throws, else <<[hostname, pathname, search]>>
ParseURL(s) ==
    LET scheme == IF LitAt(s, 1, "https://") THEN "https://"
                  ELSE IF LitAt(s, 1, "http://") THEN "http://" ELSE ""
        h1 == Len(scheme) + 1
        h2 == FirstOf(s, h1, {"/", "?"})
        p2 == FirstOf(s, h2, {"?"})
    IN IF scheme = "" \/ h2 = h1 \/ CharsOf(s) \cap WhiteSpace # {} THEN Null
       ELSE Some([hostname |-> SubSeq(s, h1, h2 - 1),
                  pathname |-> IF p2 = h2 THEN "/" ELSE SubSeq(s, h2, p2 - 1),
                  search |-> SubSeq(s, p2 + 1, Len(s))])

\* pathname.split('/').filter(Boolean).at(-1): undefined when there is none
RECURSIVE LastSegment(_, _)
LastSegment(path, last) ==
    IF path = "" THEN last
    ELSE LET e == FirstOf(path, 1, {"/"})
             seg == SubSeq(path, 1, e - 1)
         IN LastSegment(SubSeq(path, e + 1, Len(path)),
                        IF seg = "" THEN last ELSE Some(seg))

\* url.searchParams.get('v'): the first parameter named v, null when none
RECURSIVE SearchParamV(_)
SearchParamV(search) ==
    IF search = "" THEN Null
    ELSE LET e == FirstOf(search, 1, {"&"})
             param == SubSeq(search, 1, e - 1)
         IN IF LitAt(param, 1, "v=") THEN Some(SubSeq(param, 3, Len(param)))
            ELSE IF param = "v" THEN Some("")
            ELSE SearchParamV(SubSeq(search, e + 1, Len(search)))

\* value.match(/[\w-]{11}/): the first 11 id characters in a row
RECURSIVE InlineMatch(_, _)
InlineMatch(value, i) ==
    IF i + VideoIdLength - 1 > Len(value) THEN Null
    ELSE IF IsVideoId(SubSeq(value, i, i + VideoIdLength - 1))
    THEN Some(SubSeq(value, i, i + VideoIdLength - 1))
    ELSE InlineMatch(value, i + 1)

IdOrNull(opt) == IF opt # Undefined /\ IsVideoId(opt[1]) THEN opt ELSE Null

extractVideoId(value) ==
    LET trimmed == Trim(value)
        url == ParseURL(trimmed)
        fromShort == IF url # Null /\ Includes(url[1].hostname, "youtu.be")
                     THEN IdOrNull(LastSegment(url[1].pathname, Undefined))
                     ELSE Null
        fromSearch == IF url # Null /\ Includes(url[1].hostname, "youtube.com")
                      THEN IdOrNull(SearchParamV(url[1].search))
                      ELSE Null
        fromPath == IF url # Null /\ Includes(url[1].hostname, "youtube.com")
                    THEN IdOrNull(LastSegment(url[1].pathname, Undefined))
                    ELSE Null
    IN IF trimmed = "" THEN Null
       ELSE IF IsVideoId(trimmed) THEN Some(trimmed)
       ELSE IF fromShort # Null THEN fromShort
       ELSE IF fromSearch # Null THEN fromSearch
       ELSE IF fromPath # Null THEN fromPath
       ELSE InlineMatch(value, 1)

(***************************************************************************)
(* createVideoTrack, parseGraphVideos (App.tsx 98-140)                     *)
(*                                                                         *)
(* crypto.randomUUID() returns a value never returned before: the uuid-th  *)
(* call returns the text of the number uuid.                               *)
(***************************************************************************)
randomUUID(uuid) == ToString(uuid)

createVideoTrack(uuid, videoId, source, namespace) ==
    [key |-> "video-" \o randomUUID(uuid),
     videoId |-> videoId,
     source |-> source,
     namespace |-> namespace,
     points |-> <<>>]

\* mutant: the track takes the node's namespace as it is written
GraphVideoReducerUntrimmed(tracks, node, uuid) ==
    LET namespace == Attr(node, "namespace")
        memo == TrimOpt(Attr(node, "memo"))
    IN IF Falsy(namespace) \/ Falsy(memo) THEN tracks
       ELSE LET videoId == extractVideoId(memo[1])
            IN IF videoId = Null THEN tracks
               ELSE Append(tracks,
                           createVideoTrack(uuid + Len(tracks), videoId[1],
                                            memo[1], namespace))

\* the forEach body: the tracks with the node's track pushed, or unchanged
GraphVideoReducer(tracks, node, uuid) ==
    LET namespace == TrimOpt(Attr(node, "namespace"))
        memo == TrimOpt(Attr(node, "memo"))
    IN IF Falsy(namespace) \/ Falsy(memo) THEN tracks
       ELSE LET videoId == extractVideoId(memo[1])
            IN IF videoId = Null THEN tracks
               ELSE Append(tracks,
                           createVideoTrack(uuid + Len(tracks), videoId[1],
                                            memo[1], namespace))

RECURSIVE ReduceGraphVideos(_, _, _, _)
ReduceGraphVideos(nodes, i, uuid, tracks) ==
    IF i > Len(nodes) THEN tracks
    ELSE ReduceGraphVideos(nodes, i + 1, uuid,
                           GraphVideoReducer(tracks, nodes[i], uuid))

\* uuid: the number of the first randomUUID() call made
parseGraphVideos(nodes, uuid) == ReduceGraphVideos(nodes, 1, uuid, <<>>)

(***************************************************************************)
(* Key derivation (hdWallet.ts).  A byte array is a sequence of numbers in *)
(* 0..255.  The hash functions, the mnemonic encoding and the key pair of  *)
(* a seed are deterministic functions of their arguments: each is the term *)
(* of its arguments, so equal arguments give equal results and different   *)
(* arguments different ones.                                               *)
(***************************************************************************)
Byte == 256
DOMAIN_LABEL == "necessitated/premises"
ACCOUNT_INDEX == 0
ADDRESS_INDEX == 0

\* the element of a Uint8Array made from the integer n: n modulo 2^8
ToUint8(n) == n % Byte

sha512(bytes) == [fn |-> "sha512", of |-> bytes]
hmacSha512(key, message) == [fn |-> "hmac-sha512", key |-> key, of |-> message]
Slice32(digest) == [fn |-> "slice(0, 32)", of |-> digest]
entropyToMnemonic(entropy) == [fn |-> "entropyToMnemonic", of |-> entropy]
mnemonicToSeedSync(mnemonic) == [fn |-> "mnemonicToSeedSync", of |-> mnemonic]
keyPairFromSeed(seed) == [publicKey |-> [fn |-> "publicKey", of |-> seed]]
bytesToBase64(bytes) == [fn |-> "base64", of |-> bytes]

deriveHDSeed(seed, account, address) ==
    LET indexBytes == <<ToUint8(account), ToUint8(address)>>
        input == [seed |-> seed, indexBytes |-> indexBytes]
    IN Slice32(hmacSha512(DOMAIN_LABEL, input))

generateHDKeypair(mnemonic, account, address) ==
    LET masterSeed == mnemonicToSeedSync(mnemonic)
        derivedSeed == deriveHDSeed(masterSeed, account, address)
        keypair == keyPairFromSeed(derivedSeed)
    IN [path |-> "m/" \o ToString(account) \o "/" \o ToString(address),
        publicKey |-> bytesToBase64(keypair.publicKey)]

generateMnemonic(passphrase) ==
    LET hash == sha512(passphrase)
        entropy == Slice32(hash)
    IN entropyToMnemonic(entropy)

deriveNamespacePublicKey(namespace) ==
    LET mnemonic == generateMnemonic(namespace)
    IN generateHDKeypair(mnemonic, ACCOUNT_INDEX, ADDRESS_INDEX)

(***************************************************************************)
(* The App component (App.tsx 281-1094)                                    *)
(***************************************************************************)
DEFAULT_VIDEO_IDS == <<"tVlzKzKXjRw", "aqz-KE-bpKQ", "M7lc1UVf-VE">>

appVars == <<videos, editingPoint, isAnnotationSessionActive,
             annotationSessionTimeoutRef, timerDeadline, now, gridScale,
             graphSource, nextUuid, readOnlyNoteCall>>
socketVars == <<socketUrl, socketVersion, socketError, sockets, socketRef,
                requestedPublicKeysRef, ignoredMessage>>
harnessVars == <<pc, inNodes, inNamespace, outPoints, inAccount, inAddress,
                 outKey, inGraph, outNodes, inCells>>
vars == <<appVars, socketVars, harnessVars>>

\* ---- graph socket (258-276, 762-885) ----
DEFAULT_GRAPH_SOCKET_URL ==
    "wss://ungallant-unimpeding-kade.ngrok-free.dev/00000000ef1ee3facd6972bcaf3e5859b7662ecb2ca208875df0106189eb740b"
\* a base64 text written in the source, not derived from any namespace
DEFAULT_GRAPH_REQUEST_PUBLIC_KEY ==
    [text |-> "0000000000000000000000000000000000000000000="]

\* new URL(candidate).toString() of a candidate that starts with ws:// or
\* wss://, for lower-case hosts without port: Null when the constructor
\* throws (no host, white space), else the text with a path of / added to a
\* bare host
SocketURLString(candidate) ==
    LET scheme == IF LitAt(candidate, 1, "wss://") THEN "wss://" ELSE "ws://"
        h1 == Len(scheme) + 1
        h2 == FirstOf(candidate, h1, {"/", "?", "#"})
    IN IF h2 = h1 \/ CharsOf(candidate) \cap WhiteSpace # {} THEN Null
       ELSE IF h2 > Len(candidate) \/ CharAt(candidate, h2) # "/"
       THEN Some(SubSeq(candidate, 1, h2 - 1) \o "/"
                   \o SubSeq(candidate, h2, Len(candidate)))
       ELSE Some(candidate)

\* 258-276; url.protocol is ws: or wss: for every candidate
normalizeSocketUrl(value) ==
    LET trimmed == Trim(value)
        hasProtocol == LitAt(trimmed, 1, "ws://") \/ LitAt(trimmed, 1, "wss://")
        candidate == IF hasProtocol THEN trimmed ELSE "wss://" \o trimmed
    IN IF trimmed = "" THEN Null ELSE SocketURLString(candidate)

\* new WebSocket(url, protocols) throws a SyntaxError for a url with a
\* fragment
WebSocketThrows(url) == Includes(url, "#")

\* the useMemo of 458-469: the Map's values, in the order of the videos
RECURSIVE publicKeysByVideoKey(_)
publicKeysByVideoKey(vs) ==
    IF vs = <<>> THEN <<>>
    ELSE LET video == Head(vs)
         IN (IF video.namespace # Undefined /\ video.namespace[1] # ""
             THEN <<deriveNamespacePublicKey(video.namespace[1]).publicKey>>
             ELSE <<>>) \o publicKeysByVideoKey(Tail(vs))

\* a WebSocket as the socket effect makes it; publicKeys: the
\* publicKeysByVideoKey its listeners close over; sent: the calls of send
NewSocket(publicKeys) ==
    [readyState |-> "CONNECTING", publicKeys |-> publicKeys, sent |-> <<>>]

\* socket.send of a get_graph request; the log keeps the readyState of the call
Send(socket, publicKey) ==
    [socket EXCEPT !.sent =
        Append(@, [publicKey |-> publicKey, readyState |-> socket.readyState])]

\* mutant: the open listener requests the default key only
SendNone(socket, publicKeys, i) == socket

\* publicKeysByVideoKey.forEach of the open listener (796-799)
RECURSIVE SendAll(_, _, _)
SendAll(socket, publicKeys, i) ==
    IF i > Len(publicKeys) THEN socket
    ELSE SendAll(Send(socket, publicKeys[i]), publicKeys, i + 1)

\* mutant: the key effect requests every key, requested before or not
RECURSIVE RequestAll(_, _, _, _)
RequestAll(socket, requested, publicKeys, i) ==
    IF i > Len(publicKeys) THEN [socket |-> socket, requested |-> requested]
    ELSE RequestAll(Send(socket, publicKeys[i]),
                    requested \cup {publicKeys[i]}, publicKeys, i + 1)

\* publicKeysByVideoKey.forEach of the key effect (853-867)
RECURSIVE RequestMissing(_, _, _, _)
RequestMissing(socket, requested, publicKeys, i) ==
    IF i > Len(publicKeys) THEN [socket |-> socket, requested |-> requested]
    ELSE IF publicKeys[i] \in requested
    THEN RequestMissing(socket, requested, publicKeys, i + 1)
    ELSE RequestMissing(Send(socket, publicKeys[i]),
                        requested \cup {publicKeys[i]}, publicKeys, i + 1)

\* mutant: the key effect sends whatever the socket's state
CanSendAlways(socket) == TRUE

\* socket.readyState === WebSocket.OPEN (849)
CanSend(socket) == socket.readyState = "OPEN"

\* the effect of 847-868: it runs after every render that follows a call of
\* setVideos, with the new videos
KeySyncEffect ==
    /\ IF socketRef = 0 \/ ~CanSend(sockets[socketRef])
       THEN UNCHANGED <<sockets, requestedPublicKeysRef>>
       ELSE LET r == RequestMissing(sockets[socketRef], requestedPublicKeysRef,
                                    publicKeysByVideoKey(videos'), 1)
            IN /\ sockets' = [sockets EXCEPT ![socketRef] = r.socket]
               /\ requestedPublicKeysRef' = r.requested
    /\ UNCHANGED <<socketUrl, socketVersion, socketError, socketRef,
                   ignoredMessage>>

\* mount: the socket effect runs with the default URL and the first videos
SocketInit ==
    /\ socketUrl = DEFAULT_GRAPH_SOCKET_URL
    /\ socketVersion = 0
    /\ socketError = Null
    /\ sockets = <<NewSocket(<<>>)>>
    /\ socketRef = 1
    /\ requestedPublicKeysRef = {}
    /\ ignoredMessage = FALSE


AppInit ==
    /\ videos = [i \in 1..Len(DEFAULT_VIDEO_IDS) |->
                   createVideoTrack(i, DEFAULT_VIDEO_IDS[i],
                       "https://www.youtube.com/watch?v=" \o DEFAULT_VIDEO_IDS[i],
                       Undefined)]
    /\ editingPoint = Null
    /\ isAnnotationSessionActive = FALSE
    /\ annotationSessionTimeoutRef = FALSE
    /\ timerDeadline = 0
    /\ now = 0
    /\ gridScale = 1
    /\ graphSource = ""
    /\ nextUuid = Len(DEFAULT_VIDEO_IDS) + 1
    /\ readOnlyNoteCall = FALSE
    /\ SocketInit

NoGraphCall ==
    /\ inGraph = [segments |-> <<>>, separator |-> ""]
    /\ outNodes = <<>>
    /\ inCells = <<>>

NoKeyCall ==
    /\ inAccount = 0
    /\ inAddress = 0
    /\ outKey = Undefined
    /\ NoGraphCall

HarnessIdle ==
    /\ pc = "app"
    /\ inNodes = <<>>
    /\ inNamespace = Undefined
    /\ outPoints = <<>>
    /\ NoKeyCall

Init == AppInit /\ HarnessIdle

VideoKeys(vs) == {vs[i].key : i \in 1..Len(vs)}
VideoIndex(vs, key) == CHOOSE i \in 1..Len(vs) : vs[i].key = key

rows == GRID_ASPECT_HEIGHT * gridScale
columns == GRID_ASPECT_WIDTH * gridScale

\* mutant: the grid takes clicks at any time
isAnnotationInteractionEnabledAlways == TRUE

isAnnotationInteractionEnabled ==
    isAnnotationSessionActive \/ editingPoint # Null

\* ---- videos ----
VideoInputs == {"aqz-KE-bpKQ", "not a video"}

\* videoInput and the text of the form and its error line, are
\* not part of the model: an input that holds no video id changes nothing else
handleAddVideo(videoInput) ==
    LET id == extractVideoId(videoInput)
    IN /\ readOnlyNoteCall' = FALSE
       /\ IF id = Null
          THEN UNCHANGED <<videos, nextUuid, socketVars>>
          ELSE /\ nextUuid <= MaxUuid
               /\ videos' = <<createVideoTrack(nextUuid, id[1], videoInput, Undefined)>>
                               \o videos
               /\ nextUuid' = nextUuid + 1
               /\ KeySyncEffect
       /\ UNCHANGED <<editingPoint, isAnnotationSessionActive,
                      annotationSessionTimeoutRef, timerDeadline, gridScale, graphSource,
                      now, harnessVars>>

handleRemoveVideo(key) ==
    /\ key \in VideoKeys(videos)
    /\ videos' = SelectSeq(videos, LAMBDA video : video.key # key)
    /\ editingPoint' = IF editingPoint # Null /\ editingPoint[1].videoKey = key
                       THEN Null ELSE editingPoint
    /\ readOnlyNoteCall' = FALSE
    /\ KeySyncEffect
    /\ UNCHANGED <<isAnnotationSessionActive, annotationSessionTimeoutRef, timerDeadline,
                   gridScale, graphSource, nextUuid, now, harnessVars>>

\* ---- graph socket: the listeners and the form (762-885) ----
GraphTexts ==
    { "\"v\" [namespace=\" ns \" memo=\"https://youtu.be/dQw4w9WgXcQ\"];\n"
        \o "\"t\" [pubkey=\"ns/T+4s/3x7/\" memo=\"Hello\"];",
      "\"t\" [pubkey=\"ns/T+4s/0x17/\" memo=\"moved\"];"
        \o "\"u\" [pubkey=\"ns/T+1s/10x1/\" memo=\"first\"];" }

\* graph texts of the connection's life: two videos of one namespace; a tag
\* of a namespace no video node names
SharedNamespaceText ==
    "\"v\" [namespace=\"ns\" memo=\"https://youtu.be/dQw4w9WgXcQ\"];\n"
      \o "\"w\" [namespace=\"ns\" memo=\"https://youtu.be/aqz-KE-bpKQ\"];"
OtherNamespaceText == "\"t\" [pubkey=\"zz/T+4s/3x7/\" memo=\"Hello\"];"
SocketGraphTexts ==
    { "\"v\" [namespace=\"ns\" memo=\"https://youtu.be/dQw4w9WgXcQ\"];\n"
        \o "\"t\" [pubkey=\"ns/T+4s/3x7/\" memo=\"Hello\"];",
      SharedNamespaceText, OtherNamespaceText }

\* JSON.parse(event.data) of a message with a graph text
GraphMessage(text) == [json |-> TRUE, type |-> "graph", graph |-> Some(text)]

\* JSON.parse(event.data) of the messages the listener ignores: text that is
\* no JSON, another type without and with a graph text, a body whose graph
\* is no string
IgnoredMessages ==
    {[json |-> FALSE],
     [json |-> TRUE, type |-> "pong", graph |-> Undefined],
     [json |-> TRUE, type |-> "update", graph |-> Some(OtherNamespaceText)],
     [json |-> TRUE, type |-> "graph", graph |-> Undefined]}

SocketMessages == {GraphMessage(text) : text \in GraphTexts}

\* parseGraphNodes(data.graph) of each text a message carries
GraphNodes ==
    [text \in GraphTexts \cup SocketGraphTexts |-> parseGraphNodes(text)]

\* mutant: the type of the message is not looked at
IsGraphMessageOfAnyType(data) == data.json /\ data.graph # Undefined

\* data?.type === 'graph' && typeof data.body?.graph === 'string' (805)
IsGraphMessage(data) ==
    data.json /\ data.type = "graph" /\ data.graph # Undefined

\* the setVideos updater (810-825)
VideosAfterGraph(previous, nodes, uuid) ==
    LET graphVideos == parseGraphVideos(nodes, uuid)
        baseVideos == IF Len(graphVideos) > 0 THEN graphVideos ELSE previous
    IN [i \in 1..Len(baseVideos) |->
          LET video == baseVideos[i]
              tagPoints == parseTagPointsForNamespace(nodes, video.namespace)
          IN IF Len(tagPoints) > 0
             THEN [video EXCEPT !.points = tagPoints]
             ELSE video]

\* the open listener (794-800); the event fires on a socket that connects
SocketOpen(socket) ==
    /\ socket \in DOMAIN sockets
    /\ sockets[socket].readyState = "CONNECTING"
    /\ LET opened == [sockets[socket] EXCEPT !.readyState = "OPEN"]
       IN /\ sockets' = [sockets EXCEPT ![socket] =
                SendAll(Send(opened, DEFAULT_GRAPH_REQUEST_PUBLIC_KEY),
                        opened.publicKeys, 1)]
          /\ requestedPublicKeysRef' = requestedPublicKeysRef
                \cup {opened.publicKeys[i] : i \in 1..Len(opened.publicKeys)}
    /\ UNCHANGED <<socketUrl, socketVersion, socketError, socketRef,
                   ignoredMessage, appVars, harnessVars>>

\* the message listener (802-830); the event fires on an open socket only
SocketMessage(socket, data) ==
    /\ socket \in DOMAIN sockets
    /\ sockets[socket].readyState = "OPEN"
    /\ readOnlyNoteCall' = FALSE
    /\ IF IsGraphMessage(data)
       THEN LET nodes == GraphNodes[data.graph[1]]
                created == Len(parseGraphVideos(nodes, nextUuid))
            IN /\ nextUuid + created - 1 <= MaxUuid
               /\ graphSource' = data.graph[1]
               /\ videos' = VideosAfterGraph(videos, nodes, nextUuid)
               /\ nextUuid' = nextUuid + created
               /\ KeySyncEffect
       ELSE /\ ignoredMessage' = TRUE
            /\ UNCHANGED <<graphSource, videos, nextUuid, socketUrl,
                           socketVersion, socketError, sockets, socketRef,
                           requestedPublicKeysRef>>
    /\ UNCHANGED <<editingPoint, isAnnotationSessionActive,
                   annotationSessionTimeoutRef, timerDeadline, gridScale, now, harnessVars>>

\* the connection fails: the error listener (832-835), then the close
\* listener (837-839), in one task
SocketFail(socket) ==
    /\ socket \in DOMAIN sockets
    /\ sockets[socket].readyState # "CLOSED"
    /\ sockets' = [sockets EXCEPT ![socket].readyState = "CLOSED"]
    /\ socketError' =
          Some("WebSocket connection error. Check the URL and try again.")
    /\ UNCHANGED <<socketUrl, socketVersion, socketRef,
                   requestedPublicKeysRef, ignoredMessage, appVars,
                   harnessVars>>

\* an open connection is closed by the server, or the closing of one that
\* was open ends: the close listener (837-839)
SocketClose(socket) ==
    /\ socket \in DOMAIN sockets
    /\ \/ sockets[socket].readyState = "OPEN"
       \/ sockets[socket].readyState = "CLOSING" /\ sockets[socket].sent # <<>>
    /\ sockets' = [sockets EXCEPT ![socket].readyState = "CLOSED"]
    /\ socketError' = IF socketError # Null THEN socketError
                      ELSE Some("WebSocket connection closed.")
    /\ UNCHANGED <<socketUrl, socketVersion, socketRef,
                   requestedPublicKeysRef, ignoredMessage, appVars,
                   harnessVars>>

\* mutant: the cleanup leaves the socket as it is
CleanedUpOpen(all, current) == all

\* the cleanup of the socket effect (841-844): socket?.close()
CleanedUp(all, current) ==
    IF current # 0 /\ all[current].readyState \in {"CONNECTING", "OPEN"}
    THEN [all EXCEPT ![current].readyState = "CLOSING"]
    ELSE all

SocketUrlInputs == {"  ", "b", "ws://b/#x"}

\* the form's submit (870-885) and, for a valid URL, the render that follows:
\* the cleanup of the socket effect, then the effect again (762-845)
handleSocketSubmit(socketUrlInput) ==
    LET normalizedUrl == normalizeSocketUrl(socketUrlInput)
    IN /\ IF normalizedUrl = Null
          THEN /\ socketError' =
                     Some("Enter a valid WebSocket URL to load graph data.")
               /\ UNCHANGED <<socketUrl, socketVersion, sockets, socketRef,
                              requestedPublicKeysRef>>
          ELSE /\ socketVersion + 1 < MaxSockets
               /\ socketUrl' = normalizedUrl[1]
               /\ socketVersion' = socketVersion + 1
               /\ IF WebSocketThrows(normalizedUrl[1])
                  THEN /\ sockets' = CleanedUp(sockets, socketRef)
                       /\ socketRef' = 0
                       /\ socketError' = Some(
                            "Unable to connect with the provided WebSocket URL.")
                       /\ UNCHANGED requestedPublicKeysRef
                  ELSE /\ sockets' = Append(CleanedUp(sockets, socketRef),
                                NewSocket(publicKeysByVideoKey(videos)))
                       /\ socketRef' = Len(sockets) + 1
                       /\ socketError' = Null
                       /\ requestedPublicKeysRef' = {}
       /\ UNCHANGED <<ignoredMessage, appVars, harnessVars>>

\* ---- annotation session (503-513, 620-633) ----
startAnnotationSession ==
    /\ isAnnotationSessionActive' = TRUE
    /\ annotationSessionTimeoutRef' = TRUE
    /\ timerDeadline' = now + AnnotationSessionSeconds
    /\ readOnlyNoteCall' = FALSE
    /\ UNCHANGED <<videos, editingPoint, gridScale,
                   graphSource, nextUuid, socketVars, now, harnessVars>>

\* the window.setTimeout callback, 5000 ms after the last press
AnnotationSessionTimeout ==
    /\ annotationSessionTimeoutRef
    /\ isAnnotationSessionActive' = FALSE
    /\ annotationSessionTimeoutRef' = FALSE
    /\ timerDeadline' = 0
    /\ readOnlyNoteCall' = FALSE
    /\ UNCHANGED <<videos, editingPoint, gridScale,
                   graphSource, nextUuid, socketVars, now, harnessVars>>

handlePageHide ==
    /\ isAnnotationSessionActive
    /\ isAnnotationSessionActive' = FALSE
    /\ readOnlyNoteCall' = FALSE
    /\ UNCHANGED <<videos, editingPoint, annotationSessionTimeoutRef, timerDeadline,
                   gridScale, graphSource, nextUuid, socketVars, now, harnessVars>>

\* ---- grid size (913-946) ----
\* mutant: no upper limit
clampGridScaleFromBelow(scale) ==
    IF scale > MIN_GRID_SCALE THEN scale ELSE MIN_GRID_SCALE

clampGridScale(scale) ==
    LET atLeast == IF scale > MIN_GRID_SCALE THEN scale ELSE MIN_GRID_SCALE
    IN IF atLeast < MAX_GRID_SCALE THEN atLeast ELSE MAX_GRID_SCALE

\* Math.round(value / aspect): the nearest integer, halves rounded up
RoundedQuotient(value, aspect) == (2 * value + aspect) \div (2 * aspect)

\* Math.max(MIN_GRID_SCALE, x)
AtLeastMinScale(x) == IF x > MIN_GRID_SCALE THEN x ELSE MIN_GRID_SCALE

GridInputs == {"abc", "16", "7"}

\* the scale handleRowsChange leaves: the one it had when it returns at
\* 921-923, nextScale of 925-928 otherwise
RowsNextScale(previous, text) ==
    LET value == parseInt(text)
    IN IF isNaN(value) THEN previous
       ELSE clampGridScale(
                AtLeastMinScale(RoundedQuotient(value.v, GRID_ASPECT_HEIGHT)))

\* the same of handleColumnsChange (936-943)
ColumnsNextScale(previous, text) ==
    LET value == parseInt(text)
    IN IF isNaN(value) THEN previous
       ELSE clampGridScale(
                AtLeastMinScale(RoundedQuotient(value.v, GRID_ASPECT_WIDTH)))

handleRowsChange(text) ==
       /\ gridScale' = RowsNextScale(gridScale, text)
       /\ readOnlyNoteCall' = FALSE
       /\ UNCHANGED <<videos, editingPoint, isAnnotationSessionActive,
                      annotationSessionTimeoutRef, timerDeadline, graphSource,
                      nextUuid, socketVars, now, harnessVars>>

handleColumnsChange(text) ==
       /\ gridScale' = ColumnsNextScale(gridScale, text)
       /\ readOnlyNoteCall' = FALSE
       /\ UNCHANGED <<videos, editingPoint, isAnnotationSessionActive,
                      annotationSessionTimeoutRef, timerDeadline, graphSource,
                      nextUuid, socketVars, now, harnessVars>>

\* ---- points (952-1094) ----
PointIds(video) == {video.points[j].id : j \in 1..Len(video.points)}

\* the editor of a point is on screen (1196-1263): the point is being edited,
\* is on the video and can be edited
EditorRendered(videoKey, pointId) ==
    /\ editingPoint = Some([videoKey |-> videoKey, pointId |-> pointId])
    /\ videoKey \in VideoKeys(videos)
    /\ \E j \in 1..Len(videos[VideoIndex(videos, videoKey)].points) :
          LET point == videos[VideoIndex(videos, videoKey)].points[j]
          IN point.id = pointId /\ ~point.isReadOnly

\* mutant: the note is stored whatever the point
NotesUpdatedAlways(previous, videoKey, pointId, note) ==
    [i \in 1..Len(previous) |->
        IF previous[i].key = videoKey
        THEN [previous[i] EXCEPT !.points =
                [j \in 1..Len(previous[i].points) |->
                    IF previous[i].points[j].id = pointId
                    THEN [previous[i].points[j] EXCEPT !.note = note]
                    ELSE previous[i].points[j]]]
        ELSE previous[i]]

\* the setVideos updater of updatePointNote (954-977)
NotesUpdated(previous, videoKey, pointId, note) ==
    [i \in 1..Len(previous) |->
        IF previous[i].key = videoKey
        THEN [previous[i] EXCEPT !.points =
                [j \in 1..Len(previous[i].points) |->
                    IF /\ previous[i].points[j].id = pointId
                       /\ ~previous[i].points[j].isReadOnly
                    THEN [previous[i].points[j] EXCEPT !.note = note]
                    ELSE previous[i].points[j]]]
        ELSE previous[i]]

NoteInputs == {"edited", ""}

\* history: updatePointNote is called on a read-only point
NamesReadOnlyPoint(previous, videoKey, pointId) ==
    LET video == previous[VideoIndex(previous, videoKey)]
    IN \E j \in 1..Len(video.points) :
          video.points[j].id = pointId /\ video.points[j].isReadOnly

\* the callback takes any video key and point id; the editor passes the
\* point it edits
updatePointNote(videoKey, pointId, note) ==
    /\ videoKey \in VideoKeys(videos)
    /\ pointId \in PointIds(videos[VideoIndex(videos, videoKey)])
    /\ videos' = NotesUpdated(videos, videoKey, pointId, note)
    /\ readOnlyNoteCall' = NamesReadOnlyPoint(videos, videoKey, pointId)
    /\ KeySyncEffect
    /\ UNCHANGED <<editingPoint, isAnnotationSessionActive,
                   annotationSessionTimeoutRef, timerDeadline, gridScale,
                   graphSource, nextUuid, now, harnessVars>>

\* the setVideos updater of removePoint (984-1000)
PointRemoved(previous, videoKey, pointId) ==
    [i \in 1..Len(previous) |->
        IF previous[i].key = videoKey
        THEN [previous[i] EXCEPT !.points =
                SelectSeq(previous[i].points, LAMBDA point : point.id # pointId)]
        ELSE previous[i]]

\* the setEditingPoint updater of stopEditingPoint (1023-1030)
EditingStopped(previous, videoKey, pointId) ==
    IF /\ previous # Null
       /\ previous[1].videoKey = videoKey
       /\ previous[1].pointId = pointId
    THEN Null
    ELSE previous

\* a click on the marker of a point that can be edited (1264-1271)
startEditingPoint(videoKey, pointId) ==
    /\ videoKey \in VideoKeys(videos)
    /\ \E j \in 1..Len(videos[VideoIndex(videos, videoKey)].points) :
          LET point == videos[VideoIndex(videos, videoKey)].points[j]
          IN point.id = pointId /\ ~point.isReadOnly
    /\ ~EditorRendered(videoKey, pointId)
    /\ editingPoint' = Some([videoKey |-> videoKey, pointId |-> pointId])
    /\ readOnlyNoteCall' = FALSE
    /\ UNCHANGED <<videos, isAnnotationSessionActive,
                   annotationSessionTimeoutRef, timerDeadline, gridScale,
                   graphSource, nextUuid, socketVars, now, harnessVars>>

\* the editor's input loses focus (1243)
stopEditingPoint(videoKey, pointId) ==
    /\ EditorRendered(videoKey, pointId)
    /\ editingPoint' = EditingStopped(editingPoint, videoKey, pointId)
    /\ readOnlyNoteCall' = FALSE
    /\ UNCHANGED <<videos, isAnnotationSessionActive,
                   annotationSessionTimeoutRef, timerDeadline, gridScale,
                   graphSource, nextUuid, socketVars, now, harnessVars>>

\* the editor's Remove button (1245-1256): stopEditingPoint, then removePoint
removePoint(videoKey, pointId) ==
    /\ EditorRendered(videoKey, pointId)
    /\ editingPoint' = EditingStopped(editingPoint, videoKey, pointId)
    /\ videos' = PointRemoved(videos, videoKey, pointId)
    /\ readOnlyNoteCall' = FALSE
    /\ KeySyncEffect
    /\ UNCHANGED <<isAnnotationSessionActive,
                   annotationSessionTimeoutRef, timerDeadline, gridScale,
                   graphSource, nextUuid, now, harnessVars>>

\* the clicks on the grid: on the first cell with the player at 4 s and no
\* usable overlay rectangle; on the last cell with the player at 0 s, at the
\* cell's far corner (x, y: the click's position from the rectangle's left
\* and top, from overlay.getBoundingClientRect())
GridClicks ==
    { [rowIndex |-> 0, columnIndex |-> 0, currentTime |-> 4,
       click |-> Undefined],
      [rowIndex |-> rows - 1, columnIndex |-> columns - 1, currentTime |-> 0,
       click |-> Some([x |-> columns * CellPixels, y |-> rows * CellPixels])] }

NewPoint(videoKey, uuid, rowIndex, columnIndex, currentTime, click) ==
    [id |-> videoKey \o "-" \o randomUUID(uuid),
     time |-> currentTime,
     row |-> rowIndex + 1,
     column |-> columnIndex + 1,
     xPercent |-> IF click = Undefined
                  THEN Percent((2 * columnIndex + 1) * 100, 2 * columns)
                  ELSE Percent(click[1].x * 100, columns * CellPixels),
     yPercent |-> IF click = Undefined
                  THEN Percent((2 * rowIndex + 1) * 100, 2 * rows)
                  ELSE Percent(click[1].y * 100, rows * CellPixels),
     note |-> "",
     isReadOnly |-> FALSE]

\* mutant: the new point goes to the end of the list, unsorted
PointAppended(previous, videoKey, newPoint) ==
    [i \in 1..Len(previous) |->
        IF previous[i].key = videoKey
        THEN [previous[i] EXCEPT !.points = Append(previous[i].points, newPoint)]
        ELSE previous[i]]

\* the setVideos updater of registerPoint (1073-1089)
PointAdded(previous, videoKey, newPoint) ==
    [i \in 1..Len(previous) |->
        IF previous[i].key = videoKey
        THEN [previous[i] EXCEPT !.points =
                SortByTime(Append(previous[i].points, newPoint))]
        ELSE previous[i]]

\* a click on a grid cell of a video in the feed; hasPlayer: playerRefs holds
\* the video's player (it does once the player has reported ready, 694-708)
registerPoint(videoKey, rowIndex, columnIndex, currentTime, click, hasPlayer) ==
    /\ videoKey \in VideoKeys(videos)
    /\ readOnlyNoteCall' = FALSE
    /\ IF ~isAnnotationInteractionEnabled \/ ~hasPlayer
       THEN UNCHANGED <<videos, editingPoint, nextUuid, socketVars>>
       ELSE /\ nextUuid <= MaxUuid
            /\ LET newPoint == NewPoint(videoKey, nextUuid, rowIndex, columnIndex,
                                        currentTime, click)
               IN /\ videos' = PointAdded(videos, videoKey, newPoint)
                  /\ editingPoint' = Some([videoKey |-> videoKey,
                                           pointId |-> newPoint.id])
            /\ nextUuid' = nextUuid + 1
            /\ KeySyncEffect
    /\ UNCHANGED <<isAnnotationSessionActive,
                   annotationSessionTimeoutRef, timerDeadline, gridScale,
                   graphSource, now, harnessVars>>

\* the video the user removes or clicks on: the one at the top of the feed
TopOfFeed == IF videos = <<>> THEN {} ELSE {videos[1].key}

AllPointIds == UNION {PointIds(videos[i]) : i \in 1..Len(videos)}

Next ==
    \/ \E videoInput \in VideoInputs : handleAddVideo(videoInput)
    \/ \E key \in TopOfFeed : handleRemoveVideo(key)
    \/ \E socket \in DOMAIN sockets : SocketOpen(socket)
    \/ \E socket \in DOMAIN sockets, data \in SocketMessages :
          SocketMessage(socket, data)
    \/ startAnnotationSession
    \/ AnnotationSessionTimeout
    \/ handlePageHide
    \/ \E text \in GridInputs : handleRowsChange(text)
    \/ \E text \in GridInputs : handleColumnsChange(text)
    \/ \E key \in TopOfFeed, c \in GridClicks, hasPlayer \in BOOLEAN :
          registerPoint(key, c.rowIndex, c.columnIndex, c.currentTime,
                        c.click, hasPlayer)
    \/ \E key \in VideoKeys(videos), id \in AllPointIds :
          startEditingPoint(key, id)
    \/ \E key \in VideoKeys(videos), id \in AllPointIds :
          stopEditingPoint(key, id)
    \/ \E key \in VideoKeys(videos), id \in AllPointIds :
          removePoint(key, id)
    \/ \E key \in VideoKeys(videos), id \in AllPointIds, note \in NoteInputs :
          updatePointNote(key, id, note)

Spec == Init /\ [][Next]_vars

\* the annotation session against the clock.  Spec leaves the clock at 0 and
\* lets the timer's callback run at any step; here a second passes with
\* Tick, never past the second at which a pending timer is due, and the
\* callback runs at that second
Tick ==
    /\ now < MaxTime
    /\ annotationSessionTimeoutRef => now < timerDeadline
    /\ now' = now + 1
    /\ UNCHANGED <<videos, editingPoint, isAnnotationSessionActive,
                   annotationSessionTimeoutRef, timerDeadline, gridScale,
                   graphSource, nextUuid, readOnlyNoteCall, socketVars,
                   harnessVars>>

TimerFires == now >= timerDeadline /\ AnnotationSessionTimeout

\* a click on the first cell of the grid, the video playing since the page
\* was loaded
ClickNow ==
    [rowIndex |-> 0, columnIndex |-> 0, currentTime |-> now, click |-> Undefined]

NextSession ==
    \/ Tick
    \/ startAnnotationSession
    \/ TimerFires
    \/ handlePageHide
    \/ \E key \in TopOfFeed, hasPlayer \in BOOLEAN :
          registerPoint(key, ClickNow.rowIndex, ClickNow.columnIndex,
                        ClickNow.currentTime, ClickNow.click, hasPlayer)
    \/ \E key \in VideoKeys(videos), id \in AllPointIds :
          startEditingPoint(key, id)
    \/ \E key \in VideoKeys(videos), id \in AllPointIds :
          stopEditingPoint(key, id)

SpecSession == Init /\ [][NextSession]_vars

\* the texts typed into the rows and columns fields while points are set:
\* no number, a number after other text, negative, zero, halves of a scale
\* step, the largest sizes, far beyond them, and a number before other text
GridTexts ==
    {"abc", "", "x7", "-20", "0", "7", "13", "16", "24", "40", "64", "1000",
     " 36", "27px"}

NextGrid ==
    \/ startAnnotationSession
    \/ \E key \in TopOfFeed :
          registerPoint(key, ClickNow.rowIndex, ClickNow.columnIndex,
                        ClickNow.currentTime, ClickNow.click, TRUE)
    \/ \E key \in VideoKeys(videos), id \in AllPointIds :
          stopEditingPoint(key, id)
    \/ \E text \in GridTexts : handleRowsChange(text)
    \/ \E text \in GridTexts : handleColumnsChange(text)

SpecGrid == Init /\ [][NextGrid]_vars

\* the life of the connection: the form, the socket's events, and the feed
\* changing under them
LifeMessages ==
    IgnoredMessages \cup {GraphMessage(text) : text \in SocketGraphTexts}

NextSocket ==
    \/ \E socketUrlInput \in SocketUrlInputs : handleSocketSubmit(socketUrlInput)
    \/ \E socket \in DOMAIN sockets : SocketOpen(socket)
    \/ \E socket \in DOMAIN sockets, data \in LifeMessages :
          SocketMessage(socket, data)
    \/ \E socket \in DOMAIN sockets : SocketFail(socket)
    \/ \E socket \in DOMAIN sockets : SocketClose(socket)
    \/ \E key \in TopOfFeed : handleRemoveVideo(key)

SpecSocket == Init /\ [][NextSocket]_vars

\* what the browser does in the end, whatever the server: a connection being
\* made opens or fails, and one being closed is closed
ConnectingResolves ==
    \E socket \in DOMAIN sockets :
       /\ sockets[socket].readyState = "CONNECTING"
       /\ SocketOpen(socket) \/ SocketFail(socket)

ClosingEnds ==
    \E socket \in DOMAIN sockets :
       /\ sockets[socket].readyState = "CLOSING"
       /\ SocketFail(socket) \/ SocketClose(socket)

SpecSocketFair ==
    /\ Init
    /\ [][NextSocket]_vars
    /\ WF_vars(ConnectingResolves)
    /\ WF_vars(ClosingEnds)

(***************************************************************************)
(* Harness for the pure functions: Init draws the inputs, one step applies *)
(* the function to them.                                                   *)
(***************************************************************************)
NodeChoices ==
    { [pubkey |-> "ns/T+4s/3x7/", memo |-> "Hello"],
      [pubkey |-> "ns/T+4s/1x2/k", memo |-> " hi "],
      [pubkey |-> "ns/T+12s/0x17/", memo |-> "Hello"],
      [pubkey |-> " ns/T+2s/10x1/ ", memo |-> "Hello"],
      [pubkey |-> "n./T+1s/1x1/", memo |-> "Hello"],
      [pubkey |-> "ns/T+abcs/3x7/x", memo |-> "Hello"],
      [pubkey |-> "ns/T+4s/3x/", memo |-> "Hello"],
      [pubkey |-> "xns/T+4s/3x7/", memo |-> "Hello"],
      [pubkey |-> "k1", memo |-> "ns/T+4s/3x7/Hello"],
      [pubkey |-> "ns/T+4s/3x7/", memo |-> "again"],
      [memo |-> "Hello"],
      [pubkey |-> "ns/T+4s/3x7/"],
      [pubkey |-> "ns/T+4s/3x7/", memo |-> "  "],
      [pubkey |-> " ", memo |-> "Hello"],
      [namespace |-> "ns", memo |-> "dQw4w9WgXcQ"] }

NamespaceChoices == {Undefined, Some(""), Some("ns"), Some("n."), Some("n")}

NodeLists == UNION {[1..n -> NodeChoices] : n \in 0..MaxNodes}

InitParse ==
    /\ AppInit
    /\ pc = "start"
    /\ inNodes \in NodeLists
    /\ inNamespace \in NamespaceChoices
    /\ outPoints = <<>>
    /\ NoKeyCall

ApplyParseTagPoints ==
    /\ pc = "start"
    /\ pc' = "parsed"
    /\ outPoints' = parseTagPointsForNamespace(inNodes, inNamespace)
    /\ UNCHANGED <<inNodes, inNamespace, inAccount, inAddress, outKey, inGraph,
                   outNodes, inCells, appVars, socketVars>>

NextParse == ApplyParseTagPoints

SpecParse == InitParse /\ [][NextParse]_vars

\* ---- key derivation ----
KeyNamespaces == {"ns", "ns/T+3s", "", " "}
IndexChoices == {-1, 0, 1, 255, 256, 257}

InitKey ==
    /\ AppInit
    /\ pc = "start"
    /\ inNodes = <<>>
    /\ outPoints = <<>>
    /\ inNamespace \in {Some(namespace) : namespace \in KeyNamespaces}
    /\ inAccount \in IndexChoices
    /\ inAddress \in IndexChoices
    /\ outKey = Undefined
    /\ NoGraphCall

ApplyGenerateHDKeypair ==
    /\ pc = "start"
    /\ pc' = "derived"
    /\ outKey' = Some(generateHDKeypair(generateMnemonic(inNamespace[1]),
                                        inAccount, inAddress))
    /\ UNCHANGED <<inNodes, inNamespace, outPoints, inAccount, inAddress,
                   inGraph, outNodes, inCells, appVars, socketVars>>

ApplyDeriveNamespacePublicKey ==
    /\ pc = "start"
    /\ pc' = "namespaceDerived"
    /\ outKey' = Some(deriveNamespacePublicKey(inNamespace[1]))
    /\ UNCHANGED <<inNodes, inNamespace, outPoints, inAccount, inAddress,
                   inGraph, outNodes, inCells, appVars, socketVars>>

NextKey == ApplyGenerateHDKeypair \/ ApplyDeriveNamespacePublicKey

SpecKey == InitKey /\ [][NextKey]_vars

\* ---- graph decoding ----
\* a node statement as written: identifier, white space before the bracket,
\* attributes in order
NodeStatement(id, gap, attrs) ==
    [kind |-> "node", id |-> id, gap |-> gap, attrs |-> attrs]

\* other text of a graph
OtherText(text) == [kind |-> "text", text |-> text]

RECURSIVE RenderAttributes(_, _)
RenderAttributes(attrs, i) ==
    IF i > Len(attrs) THEN ""
    ELSE (IF i > 1 THEN ", " ELSE "")
         \o attrs[i][1] \o "=" \o Quote \o attrs[i][2] \o Quote
         \o RenderAttributes(attrs, i + 1)

RenderSegment(segment) ==
    IF segment.kind = "node"
    THEN Quote \o segment.id \o Quote \o segment.gap \o "["
         \o RenderAttributes(segment.attrs, 1) \o "];"
    ELSE segment.text

RECURSIVE RenderGraph(_, _, _)
RenderGraph(segments, separator, i) ==
    IF i > Len(segments) THEN ""
    ELSE (IF i > 1 THEN separator ELSE "")
         \o RenderSegment(segments[i])
         \o RenderGraph(segments, separator, i + 1)

SegmentChoices ==
    { NodeStatement("a", " ", << <<"memo", "Hello">> >>),
      NodeStatement("b", "", << <<"k", "1">>, <<"k", "2">> >>),
      NodeStatement("c", " ", << <<"pubkey", "p/T+1s/1x1/">>, <<"memo", "">> >>),
      NodeStatement("d", " ", <<>>),
      OtherText("\"a\" -> \"b\";"),
      OtherText("\"a\" -> \"b\" [label=\"x\"];"),
      OtherText("\"e\" [x=\"1\""),
      OtherText("digraph {") }

SeparatorChoices == {" ", "\n"}

InitGraph ==
    /\ AppInit
    /\ pc = "start"
    /\ inNodes = <<>>
    /\ inNamespace = Undefined
    /\ outPoints = <<>>
    /\ inAccount = 0
    /\ inAddress = 0
    /\ outKey = Undefined
    /\ inGraph \in [segments : UNION {[1..n -> SegmentChoices] : n \in 0..MaxSegments},
                     separator : SeparatorChoices]
    /\ outNodes = <<>>
    /\ inCells = <<>>

ApplyParseGraphNodes ==
    /\ pc = "start"
    /\ pc' = "decoded"
    /\ outNodes' = parseGraphNodes(RenderGraph(inGraph.segments,
                                               inGraph.separator, 1))
    /\ UNCHANGED <<inNodes, inNamespace, outPoints, inAccount, inAddress,
                   outKey, inGraph, inCells, appVars, socketVars>>

NextGraph == ApplyParseGraphNodes

SpecGraph == InitGraph /\ [][NextGraph]_vars

\* ---- tags at the keys of grid cells ----
\* the key of the cell (row, column) of a namespace at a second: the key pair
\* of the mnemonic of "<namespace>/T+<second>s" at (row, column)
TimeScopedGridKey(namespace, second, row, column) ==
    generateHDKeypair(
        generateMnemonic(namespace \o "/T+" \o ToString(second) \o "s"),
        row, column).publicKey

\* the base64 text of a key as a graph node carries it: the key's term
\* written out, a text that differs for different keys
KeyText(publicKey) == ToString(publicKey)

CellChoices ==
    [second : {0, 3, 11}, row : {2, 9}, column : {1, 5}, memo : {"note"}]

TagNode(namespace, cell) ==
    [pubkey |-> KeyText(TimeScopedGridKey(namespace, cell.second, cell.row,
                                          cell.column)),
     memo |-> cell.memo]

InitCorrelate ==
    /\ AppInit
    /\ pc = "start"
    /\ inCells \in UNION {[1..n -> CellChoices] : n \in 0..MaxTags}
    /\ inNamespace = Some("ns")
    /\ inNodes = [i \in 1..Len(inCells) |-> TagNode("ns", inCells[i])]
    /\ outPoints = <<>>
    /\ inAccount = 0
    /\ inAddress = 0
    /\ outKey = Undefined
    /\ inGraph = [segments |-> <<>>, separator |-> ""]
    /\ outNodes = <<>>

ApplyCorrelate ==
    /\ pc = "start"
    /\ pc' = "correlated"
    /\ outPoints' = parseTagPointsForNamespace(inNodes, inNamespace)
    /\ UNCHANGED <<inNodes, inNamespace, inAccount, inAddress, outKey, inGraph,
                   outNodes, inCells, appVars, socketVars>>

NextCorrelate == ApplyCorrelate

SpecCorrelate == InitCorrelate /\ [][NextCorrelate]_vars

(***************************************************************************)
(* Properties                                                              *)
(*                                                                         *)
(* The explicit coordinate form, stated without the matcher: s has the     *)
(* form <ns>/T+<time>s/<column>x<row>/<rest> with three decimal numbers.   *)
(***************************************************************************)
AllDigits(d) == Len(d) > 0 /\ \A i \in 1..Len(d) : IsDigit(CharAt(d, i))

RECURSIVE Decimal(_)
Decimal(d) ==
    IF d = "" THEN 0
    ELSE 10 * Decimal(SubSeq(d, 1, Len(d) - 1)) + DigitValue(CharAt(d, Len(d)))

StartsWith(s, prefix) == LitAt(s, 1, prefix)

\* the ways to cut s into the form: <<end of time, end of column, end of row>>
NumberEnds(s, from, separator) ==
    {e \in from..Len(s) :
        AllDigits(SubSeq(s, from, e)) /\ LitAt(s, e + 1, separator)}

FormSplits(s, ns) ==
    IF ~StartsWith(s, ns \o "/T+") THEN {}
    ELSE UNION { UNION { {<<t, c, r>> : r \in NumberEnds(s, c + 2, "/")} :
                            c \in NumberEnds(s, t + 3, "x") } :
                    t \in NumberEnds(s, Len(ns) + 4, "s/") }

HasForm(s, ns) == FormSplits(s, ns) # {}

FormCoordinate(s, ns) ==
    LET sp == CHOOSE x \in FormSplits(s, ns) : TRUE
    IN [time |-> Decimal(SubSeq(s, Len(ns) + 4, sp[1])),
        column |-> Decimal(SubSeq(s, sp[1] + 3, sp[2])),
        row |-> Decimal(SubSeq(s, sp[2] + 2, sp[3])),
        rest |-> SubSeq(s, sp[3] + 2, Len(s))]

Contains(s, text) == \E i \in 1..(Len(s) + 1) : LitAt(s, i, text)

HasText(node, k) == k \in DOMAIN node /\ Trim(node[k]) # ""

\* what a point says about where it came from
Core(p) == [id |-> p.id, time |-> p.time, column |-> p.column, row |-> p.row,
            note |-> p.note]

\* a node whose pubkey holds the coordinate form and which has a memo
PubkeyTagged(node, ns) ==
    /\ HasText(node, "pubkey") /\ HasText(node, "memo")
    /\ HasForm(Trim(node.pubkey), ns)

PubkeyPoint(node, ns) ==
    LET c == FormCoordinate(Trim(node.pubkey), ns)
    IN [id |-> Trim(node.pubkey), time |-> c.time, column |-> c.column,
        row |-> c.row, note |-> Trim(node.memo)]

Parsed == pc = "parsed" /\ ~Falsy(inNamespace)

C2_AnchoredLiteralNamespace ==
    pc = "parsed" =>
        /\ Falsy(inNamespace) => outPoints = <<>>
        /\ ~Falsy(inNamespace) =>
             \A i \in 1..Len(inNodes) :
                 (/\ "pubkey" \in DOMAIN inNodes[i]
                  /\ ~StartsWith(Trim(inNodes[i].pubkey), inNamespace[1] \o "/T+"))
                 => \A j \in 1..Len(outPoints) :
                        outPoints[j].id # Trim(inNodes[i].pubkey)

\* the namespace "n." is a pattern lookalike of the encoded "ns", and the
\* node that does carry "n." yields its point
C2_Witness ==
    /\ pc = "parsed"
    /\ inNamespace = Some("n.")
    /\ \E i \in 1..Len(inNodes) :
          HasText(inNodes[i], "memo") /\ HasText(inNodes[i], "pubkey")
              /\ Trim(inNodes[i].pubkey) = "ns/T+4s/3x7/"
    /\ Len(outPoints) = 1
    /\ outPoints[1].id = "n./T+1s/1x1/"

\* C3: a node whose encoded coordinate (its trimmed pubkey) starts with the
\* namespace and "/T+" but has a non-numeric or missing seconds, column or
\* row component yields no point.
C3_NonNumericSkipped ==
    Parsed =>
        \A i \in 1..Len(inNodes) :
            (/\ "pubkey" \in DOMAIN inNodes[i]
             /\ StartsWith(Trim(inNodes[i].pubkey), inNamespace[1] \o "/T+")
             /\ ~HasForm(Trim(inNodes[i].pubkey), inNamespace[1]))
            => \A j \in 1..Len(outPoints) :
                   outPoints[j].id # Trim(inNodes[i].pubkey)

C3_Witness ==
    /\ Parsed
    /\ \E i \in 1..Len(inNodes) :
          HasText(inNodes[i], "memo") /\ HasText(inNodes[i], "pubkey")
              /\ Trim(inNodes[i].pubkey) = "ns/T+abcs/3x7/x"
    /\ \E i \in 1..Len(inNodes) :
          HasText(inNodes[i], "memo") /\ HasText(inNodes[i], "pubkey")
              /\ Trim(inNodes[i].pubkey) = "ns/T+4s/3x/"
    /\ inNamespace = Some("ns")
    /\ outPoints = <<>>

\* C4: nodes that lack a pubkey or a memo, or have one that is blank after
\* trimming, contribute nothing: the points of a node list are the points of
\* the list with those nodes deleted.
WellFormedNode(node) == HasText(node, "pubkey") /\ HasText(node, "memo")

C4_MalformedNodesSkipped ==
    pc = "parsed" =>
        /\ outPoints =
             parseTagPointsForNamespace(SelectSeq(inNodes, WellFormedNode),
                                        inNamespace)
        /\ \A j \in 1..Len(outPoints) :
              \E i \in 1..Len(inNodes) :
                  /\ WellFormedNode(inNodes[i])
                  /\ outPoints[j].id = Trim(inNodes[i].pubkey)
                  /\ outPoints[j].note = Trim(inNodes[i].memo)

C4_Witness ==
    /\ Parsed
    /\ Len(inNodes) = 2
    /\ ~WellFormedNode(inNodes[1])
    /\ "pubkey" \in DOMAIN inNodes[1]
    /\ HasForm(Trim(inNodes[1].pubkey), inNamespace[1])
    /\ Len(outPoints) = 1

SortedByTime(points) ==
    \A a, b \in 1..Len(points) : a < b => points[a].time <= points[b].time

\* C5 (as stated): the points are in non-decreasing time order and, among
\* points of equal time, in row-major order (smaller row first, then smaller
\* column), whatever the order of the nodes.
C5_TiesRowMajor ==
    pc = "parsed" =>
        /\ SortedByTime(outPoints)
        /\ \A a, b \in 1..Len(outPoints) :
              (a < b /\ outPoints[a].time = outPoints[b].time)
              => \/ outPoints[a].row < outPoints[b].row
                 \/ /\ outPoints[a].row = outPoints[b].row
                    /\ outPoints[a].column <= outPoints[b].column

\* C5 (amended): the points are in non-decreasing time order and points of
\* equal time keep the order of their nodes in the payload.
TaggedNodes(nodes, ns) == SelectSeq(nodes, LAMBDA n : PubkeyTagged(n, ns))

C5_TiesPayloadOrder ==
    Parsed =>
        /\ SortedByTime(outPoints)
        /\ LET tagged == TaggedNodes(inNodes, inNamespace[1])
               emitted == [k \in 1..Len(tagged) |->
                              PubkeyPoint(tagged[k], inNamespace[1])]
           IN \A j \in 1..Len(outPoints) :
                 LET t == outPoints[j].time
                     SameTime(p) == p.time = t
                 IN SelectSeq([k \in 1..Len(outPoints) |-> Core(outPoints[k])],
                              SameTime)
                      = SelectSeq(emitted, SameTime)

\* two nodes of the same second, the later cell first in the payload, and a
\* node of an earlier second after them
C5_Witness ==
    /\ Parsed
    /\ Len(outPoints) = 2
    /\ outPoints[1].time = outPoints[2].time
    /\ outPoints[1].row > outPoints[2].row
    /\ outPoints[1].id = Trim(inNodes[1].pubkey)

\* C7: the ids of the points returned for one video are pairwise distinct.
C7_PointIdsDistinct ==
    pc = "parsed" =>
        \A a, b \in 1..Len(outPoints) :
            a # b => outPoints[a].id # outPoints[b].id

(***************************************************************************)
(* Properties of the App's states                                          *)
(***************************************************************************)
\* the positions of the points in the feed: <<video, point>>
PointPositions(vs) ==
    UNION {{<<i, j>> : j \in 1..Len(vs[i].points)} : i \in 1..Len(vs)}

\* the point is one parseTagPointsForNamespace made for the video: its id is
\* an encoded coordinate in the video's namespace (a point of registerPoint
\* has the id <video key>-<uuid>)
FromGraphTags(video, point) ==
    ~Falsy(video.namespace) /\ HasForm(point.id, video.namespace[1])

FromRegisterPoint(video, point) ==
    \E uuid \in 1..MaxUuid : point.id = video.key \o "-" \o randomUUID(uuid)

ReadOnlyExactlyTagPoints ==
    \A pos \in PointPositions(videos) :
        LET video == videos[pos[1]]
            point == video.points[pos[2]]
        IN /\ point.isReadOnly <=> FromGraphTags(video, point)
           /\ ~point.isReadOnly <=> FromRegisterPoint(video, point)

\* what updatePointNote(videoKey, pointId, note) leaves behind
NoteStored(videoKey, pointId, note) ==
    /\ Len(videos') = Len(videos)
    /\ \A i \in 1..Len(videos) :
          Len(videos'[i].points) = Len(videos[i].points)
    /\ \A pos \in PointPositions(videos) :
          LET before == videos[pos[1]].points[pos[2]]
              after == videos'[pos[1]].points[pos[2]]
          IN /\ before.isReadOnly => after = before
             /\ (/\ ~before.isReadOnly
                 /\ videos[pos[1]].key = videoKey
                 /\ before.id = pointId) => after.note = note

\* C6: in every reachable state a point is read-only exactly when it was
\* produced from graph tags (and not read-only exactly when registerPoint
\* created it); a step of updatePointNote never changes a read-only point and
\* stores the new note in the point it names when that point is not
\* read-only.  (Only the steps that change videos or name a read-only point
\* are looked at: any other step of updatePointNote rewrites the note a point
\* already has.)
C6_ReadOnlyExactlyTagPoints ==
    /\ []ReadOnlyExactlyTagPoints
    /\ [][(videos' # videos \/ readOnlyNoteCall') =>
             \A key \in VideoKeys(videos), id \in AllPointIds, note \in NoteInputs :
                 updatePointNote(key, id, note) => NoteStored(key, id, note)]_vars

\* updatePointNote has just been called on a read-only point of a video that
\* also holds a point of registerPoint whose note has been stored
C6_Witness ==
    /\ readOnlyNoteCall
    /\ \E i \in 1..Len(videos) :
          /\ \E j \in 1..Len(videos[i].points) :
                /\ videos[i].points[j].isReadOnly
                /\ videos[i].points[j].note = "Hello"
          /\ \E j \in 1..Len(videos[i].points) :
                /\ ~videos[i].points[j].isReadOnly
                /\ videos[i].points[j].note = "edited"

\* C8: in every reachable state every point of every video has xPercent and
\* yPercent within [0, 100].
WithinPercentRange(percent) ==
    0 <= percent.num /\ percent.num <= 100 * percent.den

C8_PercentWithinRange ==
    \A pos \in PointPositions(videos) :
        LET point == videos[pos[1]].points[pos[2]]
        IN WithinPercentRange(point.xPercent) /\ WithinPercentRange(point.yPercent)

\* C10: key derivation with a row or column (the account and the address of
\* generateHDKeypair) outside 0..255 fails with CoordinateOutOfRange and
\* returns no key; the seed of such a coordinate is never the seed of the
\* coordinate taken modulo 256.
CoordinateOutOfRange == [error |-> "CoordinateOutOfRange"]

C10_CoordinateOutOfRange ==
    (pc = "derived" /\ (inAccount \notin 0..255 \/ inAddress \notin 0..255))
    => LET masterSeed == mnemonicToSeedSync(generateMnemonic(inNamespace[1]))
       IN /\ outKey = Some(CoordinateOutOfRange)
          /\ deriveHDSeed(masterSeed, inAccount, inAddress)
               # deriveHDSeed(masterSeed, inAccount % 256, inAddress % 256)

\* C11: deriving the namespace identity for an empty or blank namespace
\* fails with InvalidNamespace instead of returning a public key.
InvalidNamespace == [error |-> "InvalidNamespace"]

C11_BlankNamespaceRefused ==
    (pc = "namespaceDerived" /\ Trim(inNamespace[1]) = "")
    => outKey = Some(InvalidNamespace)

\* the attribute map a node statement stands for: each key it writes, with the
\* value of the key's last occurrence
KeysOf(attrs) == {attrs[i][1] : i \in 1..Len(attrs)}

LastIndexOf(attrs, key) ==
    CHOOSE i \in 1..Len(attrs) :
        attrs[i][1] = key /\ \A j \in (i + 1)..Len(attrs) : attrs[j][1] # key

AttributeMap(attrs) ==
    [key \in KeysOf(attrs) |-> attrs[LastIndexOf(attrs, key)][2]]

IsNodeStatement(segment) == segment.kind = "node"

NodeStatements(segments) == SelectSeq(segments, IsNodeStatement)

MapsOf(statements) ==
    [i \in 1..Len(statements) |-> AttributeMap(statements[i].attrs)]

\* C12: for a text made of node statements, parseGraphNodes returns one
\* attribute map per statement, in the order of the statements, and each map
\* sends a key to the value of the key's last occurrence in its statement.
C12_OneMapPerStatementInOrder ==
    (pc = "decoded" /\ \A i \in 1..Len(inGraph.segments) :
                          IsNodeStatement(inGraph.segments[i]))
    => outNodes = MapsOf(inGraph.segments)

\* two statements, the second one writing a key twice
C12_Witness ==
    /\ pc = "decoded"
    /\ Len(inGraph.segments) = 2
    /\ \A i \in 1..2 : IsNodeStatement(inGraph.segments[i])
    /\ inGraph.segments[1].id = "c"
    /\ Len(inGraph.segments[2].attrs) = 2
    /\ outNodes = << [pubkey |-> "p/T+1s/1x1/", memo |-> ""], [k |-> "2"] >>

\* C13: a segment that is no well-formed node statement is skipped without
\* affecting the rest: the maps returned are exactly the maps of the text's
\* node statements.
C13_MalformedSegmentsSkipped ==
    pc = "decoded" => outNodes = MapsOf(NodeStatements(inGraph.segments))

(***************************************************************************)
(* The graph socket                                                        *)
(***************************************************************************)
LiveSockets ==
    {i \in DOMAIN sockets : sockets[i].readyState \in {"CONNECTING", "OPEN"}}

KeysSent(socket) == {socket.sent[j].publicKey : j \in 1..Len(socket.sent)}

AtMostOneLive == Cardinality(LiveSockets) <= 1

\* the requested keys were all requested on the socket of socketRef
RequestedOnCurrent ==
    socketRef # 0 => requestedPublicKeysRef \subseteq KeysSent(sockets[socketRef])

\* C14: at most one socket is connecting or open at any time, the requested
\* key set holds only keys requested on the current socket, and the step that
\* makes a new socket leaves every earlier socket closing or closed, the
\* requested key set empty and nothing sent on the new socket
C14_OneLiveSocket ==
    /\ [](AtMostOneLive /\ RequestedOnCurrent)
    /\ [][Len(sockets') > Len(sockets) =>
            /\ \A i \in DOMAIN sockets :
                  sockets'[i].readyState \in {"CLOSING", "CLOSED"}
            /\ requestedPublicKeysRef' = {}
            /\ sockets'[Len(sockets')].sent = <<>>]_vars

\* a second socket is open while the first, which had requested the key of a
\* namespace, is closing
C14_Witness ==
    /\ Len(sockets) > 1
    /\ Len(sockets[1].sent) > 1
    /\ sockets[1].readyState = "CLOSING"
    /\ sockets[2].readyState = "OPEN"

\* the keys of the requests sent on a socket, in order
KeySequence(socket) == [j \in 1..Len(socket.sent) |-> socket.sent[j].publicKey]

NoKeyTwice(keys) ==
    \A j, k \in 1..Len(keys) : keys[j] = keys[k] => j = k

\* C15: on every socket each key is requested at most once, whatever the
\* namespaces the videos share and whatever tracks graph messages recreate
C15_KeyRequestedOnce ==
    \A i \in DOMAIN sockets : NoKeyTwice(KeySequence(sockets[i]))

\* requests have been sent on a socket that is still open and no graph
\* response has been processed
RequestOutstanding ==
    /\ graphSource = ""
    /\ \E i \in DOMAIN sockets :
          sockets[i].readyState = "OPEN" /\ sockets[i].sent # <<>>

\* C16: requests that were sent do not stay outstanding for ever: a graph
\* response is processed, or the connection they were sent on ends
C16_RequestResolves == RequestOutstanding ~> ~RequestOutstanding

\* the namespace a tag's public key starts with: the text before /T+
TagNamespace(pubkey) ==
    SubSeq(pubkey, 1,
           (CHOOSE k \in 1..(Len(pubkey) + 1) :
               /\ k = Len(pubkey) + 1 \/ LitAt(pubkey, k, "/T+")
               /\ \A j \in 1..(k - 1) : ~LitAt(pubkey, j, "/T+")) - 1)

\* the namespaces a graph response is about: those of its video nodes and
\* those of its tags
ResponseNamespaces(nodes) ==
    {nodes[i].namespace : i \in {j \in 1..Len(nodes) : "namespace" \in DOMAIN nodes[j]}}
    \cup {TagNamespace(nodes[i].pubkey) :
            i \in {j \in 1..Len(nodes) : "pubkey" \in DOMAIN nodes[j]}}

FeedNamespaces(vs) ==
    {vs[i].namespace[1] : i \in {j \in 1..Len(vs) : vs[j].namespace # Undefined}}

\* a graph message is processed only from the open socket of socketRef
FromCurrentSocket ==
    graphSource' # graphSource =>
        socketRef # 0 /\ sockets[socketRef].readyState = "OPEN"

\* C17: a graph message comes from the current connection only, and a
\* response about namespaces of no video in the feed leaves the videos, and
\* so their points, as they were
C17_StaleResponseDropped ==
    [][/\ FromCurrentSocket
       /\ \A i \in DOMAIN sockets, text \in SocketGraphTexts :
             (/\ SocketMessage(i, GraphMessage(text))
              /\ ResponseNamespaces(GraphNodes[text])
                    \cap FeedNamespaces(videos) = {})
             => videos' = videos]_vars

\* C18: a message that is no JSON, has another type or carries no graph text
\* leaves the videos with their points, the graph source and the requested
\* key set unchanged
C18_OtherMessagesIgnored ==
    [][\A i \in DOMAIN sockets, data \in IgnoredMessages :
          SocketMessage(i, data) =>
             UNCHANGED <<videos, graphSource, requestedPublicKeysRef>>]_vars

\* a message was ignored, and a graph had been processed and a key requested
C18_Witness ==
    /\ ignoredMessage
    /\ graphSource # ""
    /\ requestedPublicKeysRef # {}

\* every call of send was made on an open socket
SentWhenOpen ==
    \A i \in DOMAIN sockets : \A j \in 1..Len(sockets[i].sent) :
       sockets[i].sent[j].readyState = "OPEN"

\* the step ends a connection: an error or close event was handled
ConnectionEnds ==
    \E i \in DOMAIN sockets :
       sockets[i].readyState # "CLOSED" /\ sockets'[i].readyState = "CLOSED"

\* C19: no request is sent on a socket that is not open, and the step in
\* which a connection ends by an error or close event changes the socket
\* error at most: the videos and their points, the graph source, the
\* requested keys and the requests sent stay as they were
C19_FailureAbsorbed ==
    /\ []SentWhenOpen
    /\ [][ConnectionEnds =>
            /\ UNCHANGED <<appVars, socketUrl, socketVersion, socketRef,
                           requestedPublicKeysRef>>
            /\ Len(sockets') = Len(sockets)
            /\ \A k \in DOMAIN sockets : sockets'[k].sent = sockets[k].sent]_vars

\* a connection that had requested the key of a namespace has ended with an
\* error, and the feed still holds the videos of the namespace
C19_Witness ==
    /\ socketError = Some("WebSocket connection error. Check the URL and try again.")
    /\ \E i \in DOMAIN sockets :
          sockets[i].readyState = "CLOSED" /\ Len(sockets[i].sent) > 1
    /\ FeedNamespaces(videos) # {}

\* the step makes a socket
ConnectionMade == Len(sockets') # Len(sockets)

\* the step is the submit of a URL the form accepts
ValidSubmit ==
    /\ socketVersion' = socketVersion + 1
    /\ \E socketUrlInput \in SocketUrlInputs :
          normalizeSocketUrl(socketUrlInput) = Some(socketUrl')

\* the requests the step sends on a socket are for keys not sent on it before
NothingSentAgain ==
    \A k \in DOMAIN sockets :
       /\ Len(sockets'[k].sent) >= Len(sockets[k].sent)
       /\ SubSeq(sockets'[k].sent, 1, Len(sockets[k].sent)) = sockets[k].sent
       /\ \A j \in (Len(sockets[k].sent) + 1)..Len(sockets'[k].sent) :
             \A h \in 1..(j - 1) :
                sockets'[k].sent[h].publicKey # sockets'[k].sent[j].publicKey

\* C20: the first socket is made at mount and every later one by the submit
\* of a valid URL, one at a time; the step of an error or close event makes
\* no socket and sends nothing; the step of a message makes no socket and
\* sends no request for a key already sent on the socket
C20_NoAutomaticReconnect ==
    /\ Len(sockets) = 1
    /\ [][ConnectionMade => Len(sockets') = Len(sockets) + 1 /\ ValidSubmit]_vars
    /\ [][ConnectionEnds =>
            /\ ~ConnectionMade
            /\ \A k \in DOMAIN sockets : sockets'[k].sent = sockets[k].sent]_vars
    /\ [][\A i \in DOMAIN sockets, data \in LifeMessages :
            SocketMessage(i, data) => ~ConnectionMade /\ NothingSentAgain]_vars

\* graph messages have made two tracks or more and the connection has ended:
\* it is still the only socket, with the default key and one more requested
C20_Witness ==
    /\ Len(sockets) = 1
    /\ sockets[1].readyState = "CLOSED"
    /\ Len(sockets[1].sent) = 2
    /\ nextUuid > Len(DEFAULT_VIDEO_IDS) + 2
    /\ socketError # Null

(***************************************************************************)
(* The feed under every handler                                            *)
(***************************************************************************)
\* a track has no namespace, or one that is not empty and has no white
\* space at its ends
NamespaceWellFormed ==
    \A i \in 1..Len(videos) :
       \/ videos[i].namespace = Undefined
       \/ /\ videos[i].namespace[1] # ""
          /\ Trim(videos[i].namespace[1]) = videos[i].namespace[1]

\* a track key that stays in the feed keeps its namespace
NamespaceKept ==
    \A i \in 1..Len(videos), j \in 1..Len(videos') :
       videos[i].key = videos'[j].key =>
          videos[i].namespace = videos'[j].namespace

\* C21: every track's namespace is absent or non-empty and trimmed, and no
\* step changes the namespace of a track key that stays in the feed
C21_NamespaceImmutable == []NamespaceWellFormed /\ [][NamespaceKept]_vars

\* a track with a namespace has been kept by a graph message that gave it
\* points, and has a point of the user beside them
C21_Witness ==
    \E i \in 1..Len(videos) :
       /\ videos[i].namespace = Some("ns")
       /\ \E j, k \in 1..Len(videos[i].points) :
             /\ videos[i].points[j].isReadOnly
             /\ ~videos[i].points[k].isReadOnly
       /\ graphSource \in GraphTexts
       /\ \A n \in 1..Len(GraphNodes[graphSource]) :
             "namespace" \notin DOMAIN GraphNodes[graphSource][n]

(***************************************************************************)
(* Tags at derived keys                                                    *)
(***************************************************************************)
\* C22: for tags at the keys of grid cells (second, row, column) of the
\* namespace, the points returned are one per tag, with the tag's second as
\* time, row + 1, column + 1 and the memo as note, in ascending time, and
\* no others
C22_CorrelationComplete ==
    pc = "correlated" =>
       /\ Len(outPoints) = Len(inCells)
       /\ SortedByTime(outPoints)
       /\ \A i \in 1..Len(inCells) : \E j \in 1..Len(outPoints) :
             /\ outPoints[j].time = inCells[i].second
             /\ outPoints[j].row = inCells[i].row + 1
             /\ outPoints[j].column = inCells[i].column + 1
             /\ outPoints[j].note = inCells[i].memo

(***************************************************************************)
(* The annotation session                                                  *)
(***************************************************************************)
\* the step adds a point to a video
PointCreated ==
    \E i \in 1..Len(videos), j \in 1..Len(videos') :
       /\ videos[i].key = videos'[j].key
       /\ PointIds(videos'[j]) \ PointIds(videos[i]) # {}

\* the session is active only up to the second its pending timer is due
ActiveWithinTimer ==
    isAnnotationSessionActive =>
       annotationSessionTimeoutRef /\ now <= timerDeadline

\* a timer that is set is due 5 seconds after the step that sets it
TimerSetFromNow ==
    (annotationSessionTimeoutRef' /\ timerDeadline' # timerDeadline) =>
       timerDeadline' = now + AnnotationSessionSeconds

NamespaceKeys ==
    {publicKeysByVideoKey(videos)[i] : i \in 1..Len(publicKeysByVideoKey(videos))}

\* on an open current connection every key of the feed has been requested
OpenHasRequested ==
    (socketRef # 0 /\ sockets[socketRef].readyState = "OPEN") =>
       NamespaceKeys \subseteq KeysSent(sockets[socketRef])

\* the feed has a namespace while the current connection is being made
KeyAwaitsConnection ==
    /\ socketRef # 0
    /\ sockets[socketRef].readyState = "CONNECTING"
    /\ NamespaceKeys # {}

\* C25: while the current connection is open the key of every namespace in
\* the feed has been requested on it, and a connection being made with a
\* namespace in the feed does not stay so: it opens, and then the keys are
\* requested, or it ends, or the feed loses its namespaces
C25_KeysRequested ==
    /\ []OpenHasRequested
    /\ KeyAwaitsConnection ~> ~KeyAwaitsConnection

\* a second connection has opened with a namespace in the feed and has
\* requested its key
C25_Witness ==
    /\ Len(sockets) > 1
    /\ socketRef = Len(sockets)
    /\ sockets[socketRef].readyState = "OPEN"
    /\ NamespaceKeys # {}
    /\ NamespaceKeys \subseteq KeysSent(sockets[socketRef])

C27_PointsSortedByTime ==
    \A i \in 1..Len(videos) : SortedByTime(videos[i].points)

\* a video whose later click, at an earlier time of the player, stands
\* before its earlier click
C27_Witness ==
    \E i \in 1..Len(videos) : \E u, v \in 1..MaxUuid :
       /\ u < v
       /\ Len(videos[i].points) >= 2
       /\ videos[i].points[1].id = videos[i].key \o "-" \o randomUUID(v)
       /\ videos[i].points[2].id = videos[i].key \o "-" \o randomUUID(u)
       /\ videos[i].points[1].time < videos[i].points[2].time

(***************************************************************************)
(* What takes a user's point or video out of the feed                      *)
(***************************************************************************)
\* the points the user created, and the videos that came from no graph
UserPointIds(vs) ==
    UNION {{vs[i].points[j].id : j \in {k \in 1..Len(vs[i].points) :
                                           ~vs[i].points[k].isReadOnly}}
           : i \in 1..Len(vs)}
UserVideoKeys(vs) ==
    {vs[i].key : i \in {i \in 1..Len(vs) : vs[i].namespace = Undefined}}

\* the step is handleRemoveVideo(key)
IsVideoRemoval(key) ==
    /\ key \in VideoKeys(videos)
    /\ videos' = SelectSeq(videos, LAMBDA video : video.key # key)

\* the step is removePoint of the point under edit
IsPointRemoval(pointId) ==
    \E key \in VideoKeys(videos) :
       /\ EditorRendered(key, pointId)
       /\ videos' = PointRemoved(videos, key, pointId)

SameConnection ==
    /\ socketRef # 0
    /\ socketRef' = socketRef
    /\ Len(sockets') = Len(sockets)

\* the requests a step of the key effect adds on the open current socket
NewRequests ==
    SubSeq(KeySequence(sockets'[socketRef]),
           Len(sockets[socketRef].sent) + 1, Len(sockets'[socketRef].sent))

\* after the requests of the open listener (the default key and one per
\* entry of the map) no request repeats a key requested before it
ExchangeBounded ==
    \A i \in DOMAIN sockets :
       \A j \in 1..Len(sockets[i].sent) :
          j > 1 + Len(sockets[i].publicKeys) =>
             \A k \in 1..(j - 1) :
                sockets[i].sent[k].publicKey # sockets[i].sent[j].publicKey

\* C29: within one connection the set of requested keys only grows; on an
\* open connection a request is sent only for a key that is not in the set,
\* and once per key; so after the open listener's requests every request of
\* a connection is for a new key, and with finitely many namespaces served
\* the requests of a connection are finitely many
C29_ExchangeQuiesces ==
    /\ [][SameConnection =>
             requestedPublicKeysRef \subseteq requestedPublicKeysRef']_vars
    /\ [][(SameConnection /\ sockets[socketRef].readyState = "OPEN") =>
             /\ NoKeyTwice(NewRequests)
             /\ \A j \in 1..Len(NewRequests) :
                   NewRequests[j] \notin requestedPublicKeysRef]_vars
    /\ []ExchangeBounded

\* a response has recreated the track of a namespace whose key the open
\* connection had requested on an earlier response, and the connection
\* still has sent that one request and the default one
C29_Witness ==
    /\ socketRef # 0
    /\ sockets[socketRef].readyState = "OPEN"
    /\ sockets[socketRef].publicKeys = <<>>
    /\ Len(sockets[socketRef].sent) = 2
    /\ Len(videos) = 1
    /\ NamespaceKeys # {}
    /\ nextUuid >= 6

(***************************************************************************)
(* The size of the grid                                                    *)
(***************************************************************************)
\* the scale is within its limits, and the sizes derived from it fit a byte
GridShape ==
    /\ gridScale \in MIN_GRID_SCALE..MAX_GRID_SCALE
    /\ rows = GRID_ASPECT_HEIGHT * gridScale
    /\ columns = GRID_ASPECT_WIDTH * gridScale
    /\ rows \in 0..(Byte - 1)
    /\ columns \in 0..(Byte - 1)

\* a text Number.parseInt reads no number from
NonNumeric(text) == isNaN(parseInt(text))

\* C30: whatever is typed into the rows and columns fields, gridScale is an
\* integer from MIN_GRID_SCALE to MAX_GRID_SCALE, rows and columns are 16 and
\* 9 times it and fit a byte; a change of either field to a text that is no
\* number leaves gridScale as it was
C30_GridScaleClamped ==
    /\ GridShape
    /\ \A text \in GridTexts :
          NonNumeric(text) =>
             /\ RowsNextScale(gridScale, text) = gridScale
             /\ ColumnsNextScale(gridScale, text) = gridScale

\* the grid at its largest, after a size beyond it was typed, with a point
\* set on it
C30_Witness ==
    /\ gridScale = MAX_GRID_SCALE
    /\ rows = GRID_ASPECT_HEIGHT * MAX_GRID_SCALE
    /\ \E i \in 1..Len(videos) : videos[i].points # <<>>

====
